---- MODULE Spec2Model ----
(***************************************************************************)
(* MinecraftCdkStack: the constructor of the stack as a sequential process *)
(* over the construct tree, with makeEnv / makeSecret / customDomain.      *)
(* Optional (possibly undefined) values are records with a "defined" flag. *)
(***************************************************************************)
EXTENDS Integers, Sequences, FiniteSets, TLC

VARIABLES props, pc, error, this_cluster, this_vpc, this_autoScaling,
          this_plugins, this_rconSecret, resources, ingress, fsIngress,
          environment, secrets, portMappings, eventRule

\* props            the MinecraftCdkStackProps the constructor is called with
\* pc, error        the constructor's position, and what it threw
\* this_*           the fields of the stack object
\* resources        the constructs added to the stack, in order
\* ingress          the rules on cluster.connections; fsIngress those on the file system
\* environment, secrets, portMappings   what the Minecraft container was given
\* eventRule        the event pattern of DomainRule
vars == <<props, pc, error, this_cluster, this_vpc, this_autoScaling,
          this_plugins, this_rconSecret, resources, ingress, fsIngress,
          environment, secrets, portMappings, eventRule>>

(* ------------------------------ bounds -------------------------------- *)

\* longest ops list tried
MaxOps == 2
\* longest mods list tried
MaxMods == 1

(* ------------------------- optional values ---------------------------- *)

Undefined == [defined |-> FALSE]
Some(v) == [defined |-> TRUE, value |-> v]
Optional(S) == {Undefined} \cup {Some(v) : v \in S}

\* JavaScript truthiness of an optional string: undefined and '' are falsy
TruthyString(o) == o.defined /\ o.value # ""
\* JavaScript truthiness of an optional object or array: only undefined is falsy
TruthyObject(o) == o.defined
\* JavaScript truthiness of an optional boolean
TruthyBool(o) == o.defined /\ o.value

(* ------------------------------ inputs -------------------------------- *)

SeqsUpTo(S, n) == UNION {[1..k -> S] : k \in 0..n}

Difficulty == {"peaceful", "easy", "normal", "hard"}

MinecraftServerOptions ==
    [version : Optional({"", "1.16.4"}),
     ops : Optional(SeqsUpTo({"a", "b"}, MaxOps)),
     difficulty : Optional({"hard"}),
     mods : Optional(SeqsUpTo({"m"}, MaxMods)),
     motd : Optional({"", "hi"})]

CustomDomainProps == [hostedZoneId : {"Z1"}, domainName : {"mc.example.com"}]

ClusterOptions == [instanceType : {"t3.medium"}, vpc : Optional({"SuppliedVpc"})]

\* capacity groups an existing cluster may carry: the stack takes them as given
ExistingAutoScalingGroups ==
    [autoScalingGroupName : {"ExistingAsg"},
     minCapacity : {0, 1}, maxCapacity : {1, 2}]

\* ICluster: hasEc2Capacity is a boolean, autoscalingGroup is optional
ICluster ==
    [hasEc2Capacity : BOOLEAN,
     autoscalingGroup : Optional(ExistingAutoScalingGroups),
     vpc : {"ExistingVpc"}]

MinecraftCdkStackProps ==
    [cluster : Optional(ICluster),
     clusterOptions : Optional(ClusterOptions),
     serverOptions : Optional(MinecraftServerOptions),
     plugins : Optional({"", "plugins"}),
     backup : Optional({"daily"}),
     rcon : Optional(BOOLEAN),
     customDomain : Optional(CustomDomainProps)]

(* ------------------------- pure helpers ------------------------------- *)

\* Array.prototype.join
RECURSIVE join(_, _)
join(arr, sep) ==
    IF Len(arr) = 0 THEN ""
    ELSE IF Len(arr) = 1 THEN arr[1]
    ELSE arr[1] \o sep \o join(Tail(arr), sep)

\* env[key] = value
Put(env, key, value) == (key :> value) @@ env

\* Asset.httpUrl of the asset packaged from a local path
httpUrl(path) == "https://assets.s3/" \o path

Resource(id, type) == [id |-> id, type |-> type]

CountResources(type) ==
    Cardinality({i \in DOMAIN resources : resources[i].type = type})

Port(protocol, port) == [protocol |-> protocol, port |-> port]

(* --------------------- makeEnv / makeSecret --------------------------- *)

BaselineEnv ==
    [EULA |-> "true", TYPE |-> "PAPER",
     OVERRIDE_SERVER_PROPERTIES |-> "true", FORCE_REDOWNLOAD |-> "true"]

\* the assignments of makeEnv after the early return, in program order
EnvVersion(env, o) ==
    IF TruthyString(o.version) THEN Put(env, "VERSION", o.version.value) ELSE env
\* variant of the difficulty rule that writes the server-type key
EnvDifficulty_type(env, o) ==
    IF TruthyString(o.difficulty) THEN Put(env, "TYPE", o.difficulty.value) ELSE env
EnvDifficulty(env, o) ==
    IF TruthyString(o.difficulty) THEN Put(env, "DIFFICULTY", o.difficulty.value) ELSE env
EnvOps(env, o) ==
    IF TruthyObject(o.ops) THEN Put(env, "OPS", join(o.ops.value, ",")) ELSE env
EnvMods(env, o) ==
    IF TruthyObject(o.mods) THEN Put(env, "MODS", join(o.mods.value, ",")) ELSE env
EnvMotd(env, o) ==
    IF TruthyString(o.motd) THEN Put(env, "MOTD", o.motd.value) ELSE env
EnvModpack(env, plugins) ==
    IF TruthyObject(plugins) THEN Put(env, "MODPACK", plugins.value.httpUrl) ELSE env
EnvRcon(env, rconSecret) ==
    IF TruthyObject(rconSecret) THEN Put(env, "ENABLE_RCON", "true") ELSE env

\* makeEnv(props?: MinecraftServerOptions), reading this.plugins and this.rconSecret
makeEnv(serverOptions, plugins, rconSecret) ==
    IF ~TruthyObject(serverOptions) THEN BaselineEnv
    ELSE LET o == serverOptions.value IN
         EnvRcon(EnvModpack(EnvMotd(EnvMods(EnvOps(EnvDifficulty(
             EnvVersion(BaselineEnv, o), o), o), o), o), plugins), rconSecret)

EmptyRecord == [k \in {} |-> ""]

\* makeSecret(), reading this.rconSecret
makeSecret(rconSecret) ==
    IF TruthyObject(rconSecret)
    THEN Put(EmptyRecord, "RCON_PASSWORD", rconSecret.value)
    ELSE EmptyRecord

(* ------------------------ the constructor ----------------------------- *)

Init ==
    /\ props \in MinecraftCdkStackProps
    /\ pc = "validate"
    /\ error = "none"
    /\ this_cluster = Undefined
    /\ this_vpc = Undefined
    /\ this_autoScaling = Undefined
    /\ this_plugins = Undefined
    /\ this_rconSecret = Undefined
    /\ resources = <<>>
    /\ ingress = <<>>
    /\ fsIngress = <<>>
    /\ environment = Undefined
    /\ secrets = Undefined
    /\ portMappings = <<>>
    /\ eventRule = Undefined

\* variant of the guard that only rejects the case where neither is given
Validate_neitherOnly ==
    /\ pc = "validate"
    /\ IF ~TruthyObject(props.cluster) /\ ~TruthyObject(props.clusterOptions)
       THEN /\ pc' = "failed"
            /\ error' = "exactly one of cluster or clusterOptions must be provided"
       ELSE /\ pc' = "resolve"
            /\ UNCHANGED error
    /\ UNCHANGED <<props, this_cluster, this_vpc, this_autoScaling, this_plugins,
                   this_rconSecret, resources, ingress, fsIngress, environment,
                   secrets, portMappings, eventRule>>

\* the guard that opens the constructor
Validate ==
    /\ pc = "validate"
    /\ IF (~TruthyObject(props.cluster) /\ ~TruthyObject(props.clusterOptions))
          \/ (TruthyObject(props.cluster) /\ TruthyObject(props.clusterOptions))
       THEN /\ pc' = "failed"
            /\ error' = "exactly one of cluster or clusterOptions must be provided"
       ELSE /\ pc' = "resolve"
            /\ UNCHANGED error
    /\ UNCHANGED <<props, this_cluster, this_vpc, this_autoScaling, this_plugins,
                   this_rconSecret, resources, ingress, fsIngress, environment,
                   secrets, portMappings, eventRule>>

\* variant of the new cluster that leaves minCapacity to the library default
NewCluster_defaultMin(vpc) ==
    [hasEc2Capacity |-> TRUE,
     autoscalingGroup |-> Some([autoScalingGroupName |-> "Cluster/DefaultAutoScalingGroup",
                                minCapacity |-> 1, maxCapacity |-> 1]),
     vpc |-> vpc]

\* new Cluster(this, 'Cluster', {vpc, capacity: {..., minCapacity: 0, maxCapacity: 1}})
NewCluster(vpc) ==
    [hasEc2Capacity |-> TRUE,
     autoscalingGroup |-> Some([autoScalingGroupName |-> "Cluster/DefaultAutoScalingGroup",
                                minCapacity |-> 0, maxCapacity |-> 1]),
     vpc |-> vpc]

\* variant of the resolution that builds a Vpc of its own around an adopted cluster
ResolveCluster_ownVpc ==
    /\ pc = "resolve"
    /\ IF TruthyObject(props.cluster)
       THEN IF ~props.cluster.value.hasEc2Capacity
            THEN /\ pc' = "failed"
                 /\ error' = "cluster must have ec2 capacity"
                 /\ UNCHANGED <<this_cluster, this_vpc, resources>>
            ELSE /\ this_cluster' = Some(props.cluster.value)
                 /\ this_vpc' = Some("Vpc")
                 /\ resources' = Append(resources, Resource("Vpc", "AWS::EC2::VPC"))
                 /\ pc' = "rules"
                 /\ UNCHANGED error
       ELSE LET options == props.clusterOptions.value
                created == ~options.vpc.defined
                vpc == IF created THEN "Vpc" ELSE options.vpc.value
            IN /\ this_vpc' = Some(vpc)
               /\ this_cluster' = Some(NewCluster(vpc))
               /\ resources' = resources
                    \o (IF created THEN <<Resource("Vpc", "AWS::EC2::VPC")>> ELSE <<>>)
                    \o <<Resource("Cluster", "AWS::ECS::Cluster")>>
               /\ pc' = "rules"
               /\ UNCHANGED error
    /\ UNCHANGED <<props, this_autoScaling, this_plugins, this_rconSecret, ingress,
                   fsIngress, environment, secrets, portMappings, eventRule>>

\* adopt props.cluster, or create the Vpc (unless supplied) and the Cluster
ResolveCluster ==
    /\ pc = "resolve"
    /\ IF TruthyObject(props.cluster)
       THEN IF ~props.cluster.value.hasEc2Capacity
            THEN /\ pc' = "failed"
                 /\ error' = "cluster must have ec2 capacity"
                 /\ UNCHANGED <<this_cluster, this_vpc, resources>>
            ELSE /\ this_cluster' = Some(props.cluster.value)
                 /\ this_vpc' = Some(props.cluster.value.vpc)
                 /\ pc' = "rules"
                 /\ UNCHANGED <<error, resources>>
       ELSE LET options == props.clusterOptions.value
                created == ~options.vpc.defined
                vpc == IF created THEN "Vpc" ELSE options.vpc.value
            IN /\ this_vpc' = Some(vpc)
               /\ this_cluster' = Some(NewCluster(vpc))
               /\ resources' = resources
                    \o (IF created THEN <<Resource("Vpc", "AWS::EC2::VPC")>> ELSE <<>>)
                    \o <<Resource("Cluster", "AWS::ECS::Cluster")>>
               /\ pc' = "rules"
               /\ UNCHANGED error
    /\ UNCHANGED <<props, this_autoScaling, this_plugins, this_rconSecret, ingress,
                   fsIngress, environment, secrets, portMappings, eventRule>>

\* this.autoScaling = this.cluster.autoscalingGroup! and the three baseline rules
BaselineRules ==
    /\ pc = "rules"
    /\ this_autoScaling' = this_cluster.value.autoscalingGroup
    /\ ingress' = ingress \o <<Port("tcp", 22), Port("tcp", 25565), Port("icmp", 8)>>
    /\ pc' = "storage"
    /\ UNCHANGED <<props, error, this_cluster, this_vpc, this_plugins, this_rconSecret,
                   resources, fsIngress, environment, secrets, portMappings, eventRule>>

\* new FileSystem(...) and fileSystem.connections.allowDefaultPortFrom(this.cluster)
Storage ==
    /\ pc = "storage"
    /\ resources' = Append(resources, Resource("MinecraftFileSystem", "AWS::EFS::FileSystem"))
    /\ fsIngress' = Append(fsIngress, Port("tcp", 2049))
    /\ pc' = "backup"
    /\ UNCHANGED <<props, error, this_cluster, this_vpc, this_autoScaling, this_plugins,
                   this_rconSecret, ingress, environment, secrets, portMappings, eventRule>>

\* if (props.backup) { new BackupPlan(...); backup.addSelection(...) }
BackupComposer ==
    /\ pc = "backup"
    /\ resources' = IF TruthyObject(props.backup)
                    THEN resources \o <<Resource("BackupPlan", "AWS::Backup::BackupPlan"),
                                        Resource("BackupSelection", "AWS::Backup::BackupSelection")>>
                    ELSE resources
    /\ pc' = "taskDefinition"
    /\ UNCHANGED <<props, error, this_cluster, this_vpc, this_autoScaling, this_plugins,
                   this_rconSecret, ingress, fsIngress, environment, secrets,
                   portMappings, eventRule>>

\* new Ec2TaskDefinition(...), addVolume, addDependency(fileSystem)
TaskDefinition ==
    /\ pc = "taskDefinition"
    /\ resources' = Append(resources,
                           Resource("MinecraftServerDefinition", "AWS::ECS::TaskDefinition"))
    /\ pc' = "plugins"
    /\ UNCHANGED <<props, error, this_cluster, this_vpc, this_autoScaling, this_plugins,
                   this_rconSecret, ingress, fsIngress, environment, secrets,
                   portMappings, eventRule>>

\* if (props.plugins) { this.plugins = new Asset(...); grantPublicAccess() }
PluginsComposer ==
    /\ pc = "plugins"
    /\ IF TruthyString(props.plugins)
       THEN /\ this_plugins' = Some([path |-> props.plugins.value,
                                     httpUrl |-> httpUrl(props.plugins.value)])
            /\ resources' = Append(resources, Resource("ModpackAsset", "AWS::S3::Asset"))
       ELSE UNCHANGED <<this_plugins, resources>>
    /\ pc' = "rcon"
    /\ UNCHANGED <<props, error, this_cluster, this_vpc, this_autoScaling,
                   this_rconSecret, ingress, fsIngress, environment, secrets,
                   portMappings, eventRule>>

\* if (props.rcon) { this.rconSecret = new secret.Secret(...); allow tcp 25575 }
RconComposer ==
    /\ pc = "rcon"
    /\ IF TruthyBool(props.rcon)
       THEN /\ this_rconSecret' = Some("RconSecret")
            /\ resources' = Append(resources,
                                   Resource("RconSecret", "AWS::SecretsManager::Secret"))
            /\ ingress' = Append(ingress, Port("tcp", 25575))
       ELSE UNCHANGED <<this_rconSecret, resources, ingress>>
    /\ pc' = "addContainer"
    /\ UNCHANGED <<props, error, this_cluster, this_vpc, this_autoScaling, this_plugins,
                   fsIngress, environment, secrets, portMappings, eventRule>>

\* variant of addContainer whose makeSecret creates the secret itself when the
\* remote-console composer has not
AddContainer_lazySecret ==
    /\ pc = "addContainer"
    /\ environment' = Some(makeEnv(props.serverOptions, this_plugins, this_rconSecret))
    /\ this_rconSecret' = IF TruthyBool(props.rcon) THEN this_rconSecret
                          ELSE Some("RconSecret")
    /\ secrets' = Some(makeSecret(this_rconSecret'))
    /\ pc' = "portMappings"
    /\ UNCHANGED <<props, error, this_cluster, this_vpc, this_autoScaling, this_plugins,
                   resources, ingress, fsIngress, portMappings, eventRule>>

\* taskDefinition.addContainer('Minecraft', {environment: makeEnv(...), secrets: makeSecret()})
AddContainer ==
    /\ pc = "addContainer"
    /\ environment' = Some(makeEnv(props.serverOptions, this_plugins, this_rconSecret))
    /\ secrets' = Some(makeSecret(this_rconSecret))
    /\ pc' = "portMappings"
    /\ UNCHANGED <<props, error, this_cluster, this_vpc, this_autoScaling, this_plugins,
                   this_rconSecret, resources, ingress, fsIngress, portMappings, eventRule>>

\* addMountPoints, addPortMappings(25565) and, if (props.rcon), addPortMappings(25575)
PortMappings ==
    /\ pc = "portMappings"
    /\ portMappings' = portMappings \o <<25565>>
                         \o (IF TruthyBool(props.rcon) THEN <<25575>> ELSE <<>>)
    /\ pc' = "service"
    /\ UNCHANGED <<props, error, this_cluster, this_vpc, this_autoScaling, this_plugins,
                   this_rconSecret, resources, ingress, fsIngress, environment, secrets,
                   eventRule>>

\* new Ec2Service(this, 'MinecraftServer', {cluster: this.cluster, taskDefinition, ...})
Service ==
    /\ pc = "service"
    /\ resources' = Append(resources, Resource("MinecraftServer", "AWS::ECS::Service"))
    /\ pc' = "customDomain"
    /\ UNCHANGED <<props, error, this_cluster, this_vpc, this_autoScaling, this_plugins,
                   this_rconSecret, ingress, fsIngress, environment, secrets,
                   portMappings, eventRule>>

\* if (props.customDomain) this.customDomain(props.customDomain): the function is
\* created first; reading autoScalingGroupName of an undefined this.autoScaling
\* throws a TypeError
CustomDomainComposer ==
    /\ pc = "customDomain"
    /\ IF ~TruthyObject(props.customDomain)
       THEN /\ pc' = "done"
            /\ UNCHANGED <<error, resources, eventRule>>
       ELSE IF ~this_autoScaling.defined
            THEN /\ resources' = Append(resources,
                                        Resource("RuleFunction", "AWS::Lambda::Function"))
                 /\ pc' = "failed"
                 /\ error' = "TypeError"
                 /\ UNCHANGED eventRule
            ELSE /\ resources' = resources
                      \o <<Resource("RuleFunction", "AWS::Lambda::Function"),
                           Resource("DomainRule", "AWS::Events::Rule")>>
                 /\ eventRule' = Some([source |-> "aws.autoscaling",
                                       detailType |-> "EC2 Instance Launch Successful",
                                       AutoScalingGroupName |->
                                           this_autoScaling.value.autoScalingGroupName])
                 /\ pc' = "done"
                 /\ UNCHANGED error
    /\ UNCHANGED <<props, this_cluster, this_vpc, this_autoScaling, this_plugins,
                   this_rconSecret, ingress, fsIngress, environment, secrets,
                   portMappings>>

Next ==
    \/ Validate
    \/ ResolveCluster
    \/ BaselineRules
    \/ Storage
    \/ BackupComposer
    \/ TaskDefinition
    \/ PluginsComposer
    \/ RconComposer
    \/ AddContainer
    \/ PortMappings
    \/ Service
    \/ CustomDomainComposer

Spec == Init /\ [][Next]_vars

(* ------------------------------ claims -------------------------------- *)

ConfigurationErrors ==
    {"exactly one of cluster or clusterOptions must be provided",
     "cluster must have ec2 capacity"}

\* both or neither of cluster / clusterOptions, or a cluster without capacity
InvalidConfiguration ==
    \/ props.cluster.defined <=> props.clusterOptions.defined
    \/ props.cluster.defined /\ ~props.cluster.value.hasEc2Capacity

\* nothing has been added to the graph and nothing has been resolved
EmptyGraph ==
    /\ resources = <<>> /\ ingress = <<>> /\ fsIngress = <<>> /\ portMappings = <<>>
    /\ ~environment.defined /\ ~secrets.defined /\ ~eventRule.defined
    /\ ~this_cluster.defined /\ ~this_vpc.defined

HasIngress(rule) == \E i \in DOMAIN ingress : ingress[i] = rule

C2_RconArtifacts ==
    pc = "done" =>
        IF TruthyBool(props.rcon)
        THEN /\ "ENABLE_RCON" \in DOMAIN environment.value
             /\ environment.value["ENABLE_RCON"] = "true"
             /\ DOMAIN secrets.value = {"RCON_PASSWORD"}
             /\ HasIngress(Port("tcp", 25575))
        ELSE /\ "ENABLE_RCON" \notin DOMAIN environment.value
             /\ DOMAIN secrets.value = {}
             /\ ~HasIngress(Port("tcp", 25575))

\* C3: in every completed build with plugins set and rcon unset, the environment
\* has MODPACK set to the asset's URL, has no ENABLE_RCON, and there is no secret
\* binding, whatever serverOptions is.
C3_ModpackEnv ==
    (pc = "done" /\ TruthyString(props.plugins) /\ ~props.rcon.defined) =>
        /\ "MODPACK" \in DOMAIN environment.value
        /\ environment.value["MODPACK"] = httpUrl(props.plugins.value)
        /\ "ENABLE_RCON" \notin DOMAIN environment.value
        /\ DOMAIN secrets.value = {}

ServerField(field) ==
    IF props.serverOptions.defined THEN props.serverOptions.value[field] ELSE Undefined

\* C4: once the environment is derived, each of VERSION, DIFFICULTY, OPS, MODS,
\* MOTD is absent when its field is absent, and no key maps to an empty value.
C4_NoEmptyValue ==
    environment.defined =>
        /\ ~ServerField("version").defined => "VERSION" \notin DOMAIN environment.value
        /\ ~ServerField("difficulty").defined => "DIFFICULTY" \notin DOMAIN environment.value
        /\ ~ServerField("ops").defined => "OPS" \notin DOMAIN environment.value
        /\ ~ServerField("mods").defined => "MODS" \notin DOMAIN environment.value
        /\ ~ServerField("motd").defined => "MOTD" \notin DOMAIN environment.value
        /\ \A k \in DOMAIN environment.value : environment.value[k] # ""

ListVariable(key, field) ==
    LET list == ServerField(field)
        present == list.defined /\ Len(list.value) > 0
    IN /\ key \in DOMAIN environment.value <=> present
       /\ present =>
            LET v == environment.value[key]
                n == Len(list.value)
            IN /\ list.value = <<"a">> => v = "a"
               /\ list.value = <<"a", "b">> => v = "a,b"
               /\ list.value = <<"b", "a">> => v = "b,a"
               /\ list.value = <<"m">> => v = "m"
               /\ Len(v) = n - 1 + Len(join(list.value, ""))

\* C5: once the environment is derived, OPS is a key exactly when the ops list is
\* present and non-empty, and its value is the elements in order joined by single
\* commas with no leading or trailing separator; the same for mods and MODS.
C5_JoinedLists ==
    environment.defined => ListVariable("OPS", "ops") /\ ListVariable("MODS", "mods")

CapacityZeroToOne(cluster) ==
    /\ cluster.autoscalingGroup.defined
    /\ cluster.autoscalingGroup.value.minCapacity = 0
    /\ cluster.autoscalingGroup.value.maxCapacity = 1

\* C6 as stated: the resolved cluster has capacity bounds 0 / 1 in the create
\* branch and in the adopt branch.
C6_BothBranches ==
    this_cluster.defined => CapacityZeroToOne(this_cluster.value)

\* C6 amended: a cluster provisioned from clusterOptions has capacity bounds
\* 0 / 1; an adopted cluster is used as given, with its own capacity group.
C6_CreateBranch ==
    this_cluster.defined =>
        IF props.cluster.defined
        THEN this_cluster.value = props.cluster.value
        ELSE CapacityZeroToOne(this_cluster.value)

C6_Witness ==
    /\ pc = "done"
    /\ props.clusterOptions.defined
    /\ CapacityZeroToOne(this_cluster.value)

\* C7: once the environment is derived it holds EULA = 'true', TYPE = 'PAPER',
\* OVERRIDE_SERVER_PROPERTIES = 'true' and FORCE_REDOWNLOAD = 'true', whatever
\* the options are.
C7_Baseline ==
    environment.defined =>
        \A k \in DOMAIN BaselineEnv :
            k \in DOMAIN environment.value /\ environment.value[k] = BaselineEnv[k]

C7_Witness ==
    /\ pc = "done"
    /\ props.serverOptions.defined
    /\ props.serverOptions.value.difficulty.defined
    /\ props.serverOptions.value.version = Some("1.16.4")
    /\ this_plugins.defined /\ this_rconSecret.defined /\ props.backup.defined
    /\ props.customDomain.defined
    /\ DOMAIN BaselineEnv \subseteq DOMAIN environment.value

Writes(field, field_next) == field_next # field

\* C9: this.plugins and this.rconSecret start undefined; each is written at most
\* once, only by its own composer, only while the environment is not yet derived,
\* and, once the environment is derived, is defined exactly when its option
\* (plugins, rcon) is set.
C9_ComposerState ==
    /\ [](pc = "validate" => ~this_plugins.defined /\ ~this_rconSecret.defined)
    /\ [](environment.defined =>
            /\ this_plugins.defined <=> TruthyString(props.plugins)
            /\ this_rconSecret.defined <=> TruthyBool(props.rcon))
    /\ [][/\ Writes(this_plugins, this_plugins') =>
               pc = "plugins" /\ ~this_plugins.defined /\ ~environment.defined
          /\ Writes(this_rconSecret, this_rconSecret') =>
               pc = "rcon" /\ ~this_rconSecret.defined /\ ~environment.defined
          /\ environment.defined => UNCHANGED <<this_plugins, this_rconSecret, environment>>
         ]_vars

C9_Witness ==
    /\ pc = "done"
    /\ this_plugins.defined /\ this_rconSecret.defined
    /\ "MODPACK" \in DOMAIN environment.value
    /\ "ENABLE_RCON" \in DOMAIN environment.value

\* C10: with customDomain set, an accepted configuration never fails in the
\* custom-domain composer, and the event rule of a completed build is filtered to
\* the name of a defined capacity group of the resolved cluster.
C10_CustomDomain ==
    (props.customDomain.defined /\ this_cluster.defined) =>
        /\ error # "TypeError"
        /\ pc = "done" =>
              /\ eventRule.defined
              /\ eventRule.value.AutoScalingGroupName
                   = this_cluster.value.autoscalingGroup.value.autoScalingGroupName

====
